---- MODULE Spec2Model ----
(***************************************************************************)
(* Model of h_encode, the chunked parallel encoder of                      *)
(* sciopt-compressors/IABS.compressor.cpp (LC framework, CPU back end).    *)
(*                                                                         *)
(* One OpenMP team runs the loop "for chunkID in [0, chunks)" under        *)
(* schedule(dynamic, 1): an idle thread takes the next unassigned          *)
(* iteration.  Every iteration loads its chunk, runs the compression       *)
(* stage, waits for the carry of its predecessor, publishes its own carry  *)
(* and then writes its size-table entry and its payload.  After the loop   *)
(* the caller writes the header and computes outsize.                      *)
(***************************************************************************)
EXTENDS Integers, Sequences, FiniteSets, TLC

\* ------------------------------------------------------------------ bounds
\* The chunk size.  The source sets CS = 16384; the model scales it down so
\* that inputs of a few chunks can be enumerated byte by byte.
CS == 2
\* Largest input length (in bytes) that Init draws.
MaxInsize == 5
\* Largest size of the OpenMP team.
MaxThreads == 3
\* Input bytes are drawn from 0..MaxByte.
MaxByte == 1

\* --------------------------------------------------------- program constants
\* sizeof(long long): the header head_out[0] occupies bytes [0, 8).
HeadBytes == 8
\* sizeof(unsigned short): one size-table entry.
ShortBytes == 2
\* unsigned short holds values modulo 2^16.
UShortMod == 65536

\* A location of the output buffer that has not been written yet.
Unwritten == -1

Byte == 0..MaxByte
NB == MaxByte + 1

Min(a, b) == IF a < b THEN a ELSE b

\* -------------------------------------------------------------- chunk plan
\* Mutant of Chunks: rounds down and adds one (one chunk too many when insize
\* is a multiple of CS).
Chunks_DivPlusOne(n) == n \div CS + 1

\* const long long chunks = (insize + CS - 1) / CS;  // round up
Chunks(n) == (n + CS - 1) \div CS

\* const long long base = chunkID * CS;
Base(c) == c * CS

\* const int osize = (int)std::min((long long)CS, insize - base);
OSize(c, n) == Min(CS, n - Base(c))

\* byte* const data_out = (byte*)&size_out[chunks];  (as a byte address)
DataOutAddr(nchunks) == HeadBytes + ShortBytes * nchunks

\* -------------------------------------------------- the compression stage
\* The stage h_BIT_4(csize, in, out) is a collaborator of h_encode: it
\* reports success, a new size and an output buffer.  Its bytes are modelled
\* as a code word that determines the chunk (values outside Byte, so that a
\* compressed byte is never mistaken for a raw one) followed by padding.
CodeBase == MaxByte + 2
PadByte == MaxByte + 1

RECURSIVE Code(_)
Code(s) == IF s = <<>> THEN 0 ELSE Head(s) + NB * Code(Tail(s))

StageOut(s, k) ==
  IF k = 0 THEN <<>>
  ELSE [i \in 1..k |-> IF i = 1 THEN CodeBase + Code(s) ELSE PadByte]

\* Every result the stage may report for the chunk s: any success flag and
\* any size from 0 to one more than the original.
StageResults(s) ==
  { [good |-> g, csize |-> k, out |-> StageOut(s, k)] :
      g \in BOOLEAN, k \in 0..(Len(s) + 1) }

\* The stage's inverse: recover n bytes from the stored bytes.
RECURSIVE Digits(_, _)
Digits(v, n) == IF n = 0 THEN <<>> ELSE <<v % NB>> \o Digits(v \div NB, n - 1)

StageInverse(b, n) ==
  IF b = <<>> THEN [i \in 1..n |-> 0]
  ELSE IF b[1] < CodeBase THEN <<>>
  ELSE Digits(b[1] - CodeBase, n)

\* ------------------------------------------------------------------- state
VARIABLES
  input,        \* the input buffer (insize = Len(input))
  nthreads,     \* size of the OpenMP team
  mainpc,       \* "loop" while the parallel loop runs, then "done"
  next,         \* next iteration the dynamic schedule hands out
  carry,        \* long long carry[chunks]
  head_out,     \* head_out[0]
  size_out,     \* unsigned short size_out[chunks]
  data_out,     \* payload bytes, indexed from data_out
  outsize,      \* the out-parameter outsize
  loc,          \* per thread: position and locals of the iteration it runs
  carryWrites,  \* history: number of stores to each carry slot
  carryWriter,  \* history: the chunks whose iteration stored to each slot
  carryReaders, \* history: the chunks whose iteration loaded each slot
  carrySeen,    \* history: what the writer of a slot had loaded from slot-1
  payloadBase,  \* history: offset at which each chunk's payload was copied
  stageLog,     \* history: what the stage reported for each chunk
  sizeWriter,   \* history: the chunks whose iteration wrote each size_out entry
  dataWriter,   \* history: the chunks whose iteration wrote each payload byte
  m             \* the state of main (its position, arguments, files, buffers)

vars == << input, nthreads, mainpc, next, carry, head_out, size_out, data_out,
           outsize, loc, carryWrites, carryWriter, carryReaders, carrySeen,
           payloadBase, stageLog, sizeWriter, dataWriter, m >>

shared == << carry, size_out, data_out >>
history == << carryWrites, carryWriter, carryReaders, carrySeen, payloadBase, stageLog,
              sizeWriter, dataWriter >>

insize == Len(input)
chunks == Chunks(insize)
ChunkIDs == 0..(chunks - 1)
Threads == 1..nthreads

\* The inputs Init draws: every length from 1 to MaxInsize, filled with the
\* byte pattern  input[i] = (seed + (i-1) * stride) mod NB  for every seed and
\* stride (constant buffers, among them the all-zero one, and buffers whose
\* neighbouring bytes differ).
Pattern(n, seed, stride) == [i \in 1..n |-> (seed + (i - 1) * stride) % NB]
Inputs == { Pattern(n, seed, stride) : n \in 1..MaxInsize, seed \in Byte, stride \in Byte }

\* Locals of a thread that runs no iteration.
IdleLocals ==
  [ pc |-> "idle", chunkID |-> -1, osize |-> 0, csize |-> 0, good |-> TRUE,
    offs |-> 0, in |-> <<>>, out |-> <<>>, branch |-> "none" ]

\* What is remembered of a stage call: whether it ran, whether it reported an
\* improvement (success and a strictly smaller size), whether a reported
\* success is undone by the stage's inverse, and the size of a reported
\* improvement (-1 when there is none).
NoStage == [ ran |-> FALSE, improved |-> FALSE, exact |-> TRUE, csize |-> -1 ]

StageRecord(r, s) ==
  [ ran |-> TRUE,
    improved |-> ~( ~r.good \/ r.csize >= Len(s) ),
    exact |-> r.good => (StageInverse(r.out, Len(s)) = s),
    csize |-> IF ~r.good \/ r.csize >= Len(s) THEN -1 ELSE r.csize ]

\* main before it runs (h_encode is modelled on its own: main never calls it).
NoMain == [ pc |-> "off" ]

Init ==
  /\ m = NoMain
  /\ input \in Inputs
  /\ nthreads \in 1..MaxThreads
  /\ mainpc = "loop"
  /\ next = 0
  /\ carry = [c \in ChunkIDs |-> 0]
  /\ head_out = Unwritten
  /\ size_out = [c \in ChunkIDs |-> Unwritten]
  /\ data_out = [i \in 0..(MaxInsize + CS) |-> Unwritten]
  /\ outsize = Unwritten
  /\ loc = [w \in Threads |-> IdleLocals]
  /\ carryWrites = [c \in ChunkIDs |-> 0]
  /\ carryWriter = [c \in ChunkIDs |-> {}]
  /\ carryReaders = [c \in ChunkIDs |-> {}]
  /\ carrySeen = [c \in ChunkIDs |-> Unwritten]
  /\ payloadBase = [c \in ChunkIDs |-> Unwritten]
  /\ stageLog = [c \in ChunkIDs |-> NoStage]
  /\ sizeWriter = [c \in ChunkIDs |-> {}]
  /\ dataWriter = [i \in 0..(MaxInsize + CS) |-> {}]

\* &input[base] for osize bytes
InputChunk(c) == SubSeq(input, Base(c) + 1, Base(c) + OSize(c, insize))

\* ----------------------------------------------------------------- actions
\* schedule(dynamic, 1): an idle thread takes the next iteration.  The
\* iterations are handed out one at a time in increasing order of chunkID,
\* as the OpenMP runtimes do with their shared iteration counter.
Fetch(w) ==
  /\ mainpc = "loop"
  /\ loc[w].pc = "idle"
  /\ next < chunks
  /\ loc' = [loc EXCEPT ![w] = [IdleLocals EXCEPT !.pc = "load", !.chunkID = next]]
  /\ next' = next + 1
  /\ UNCHANGED << m, input, nthreads, mainpc, head_out, outsize, shared, history >>

\* load chunk: osize and memcpy(out, &input[base], osize)
Load(w) ==
  /\ loc[w].pc = "load"
  /\ loc' = [loc EXCEPT ![w].osize = OSize(loc[w].chunkID, insize),
                        ![w].out = InputChunk(loc[w].chunkID),
                        ![w].pc = "encode"]
  /\ UNCHANGED << m, input, nthreads, mainpc, next, head_out, outsize, shared, history >>

\* encode chunk: csize = osize; swap(in, out); good = h_BIT_4(csize, in, out)
Encode(w) ==
  /\ loc[w].pc = "encode"
  /\ \E r \in StageResults(loc[w].out) :
       /\ loc' = [loc EXCEPT ![w].in = loc[w].out,
                             ![w].out = r.out,
                             ![w].csize = r.csize,
                             ![w].good = r.good,
                             ![w].pc = "wait"]
       /\ stageLog' = [stageLog EXCEPT ![loc[w].chunkID] = StageRecord(r, loc[w].out)]
  /\ UNCHANGED << m, input, nthreads, mainpc, next, head_out, outsize, shared,
                  carryWrites, carryWriter, carryReaders, carrySeen, payloadBase,
                  sizeWriter, dataWriter >>

\* Mutants of CarryPublished: the loop does not spin; the loop waits for a
\* sentinel of -1 although the slots start at 0.
CarryPublished_NoSpin(v) == TRUE
CarryPublished_NonNegative(v) == v >= 0

\* while (offs == 0): a carry value of 0 means "not yet published"
CarryPublished(v) == v # 0

\* handle carry: offs = 0; if (chunkID > 0) spin until carry[chunkID - 1] != 0
Wait(w) ==
  /\ loc[w].pc = "wait"
  /\ IF loc[w].chunkID > 0
       THEN /\ CarryPublished(carry[loc[w].chunkID - 1])
            /\ loc' = [loc EXCEPT ![w].offs = carry[loc[w].chunkID - 1],
                                  ![w].pc = "decide"]
            /\ carryReaders' = [carryReaders EXCEPT ![loc[w].chunkID - 1] =
                                  @ \cup {loc[w].chunkID}]
       ELSE /\ loc' = [loc EXCEPT ![w].offs = 0, ![w].pc = "decide"]
            /\ UNCHANGED carryReaders
  /\ UNCHANGED << m, input, nthreads, mainpc, next, head_out, outsize, shared,
                  carryWrites, carryWriter, carrySeen, payloadBase, stageLog,
                  sizeWriter, dataWriter >>

\* Mutants of UseCompressed: "<=" for "<"; the size test dropped; the
\* success flag dropped; "||" for "&&".
UseCompressed_Or(g, cs, os) == g \/ cs < os
UseCompressed_AllowEqual(g, cs, os) == g /\ cs <= os
UseCompressed_IgnoreSize(g, cs, os) == g
UseCompressed_IgnoreGood(g, cs, os) == cs < os

\* if (good && (csize < osize))
UseCompressed(g, cs, os) == g /\ cs < os

Decide(w) ==
  /\ loc[w].pc = "decide"
  /\ loc' = [loc EXCEPT ![w].branch =
                IF UseCompressed(loc[w].good, loc[w].csize, loc[w].osize)
                  THEN "compressed" ELSE "raw",
              ![w].pc = "carry"]
  /\ UNCHANGED << m, input, nthreads, mainpc, next, head_out, outsize, shared, history >>

\* What the taken branch stores: csize and out, or osize and &input[base].
SizeToStore(l) == IF l.branch = "compressed" THEN l.csize ELSE l.osize
BytesToStore(l) ==
  IF l.branch = "compressed" THEN SubSeq(l.out, 1, l.csize)
  ELSE InputChunk(l.chunkID)

\* Mutants of CarryValue: the base offset is not added; the sum is one short.
CarryValue_NoOffset(o, n) == n
CarryValue_OffByOne(o, n) == IF n > 0 THEN o + n - 1 ELSE o

\* carry[chunkID] = (offs + (long long)csize)   resp. osize
CarryValue(o, n) == o + n

\* Mutant of CarrySlot: the store goes to the predecessor's slot.
CarrySlot_Predecessor(c) == IF c > 0 THEN c - 1 ELSE c

\* the slot of carry an iteration stores to: carry[chunkID]
CarrySlot(c) == c

StoreCarry(w) ==
  /\ loc[w].pc = "carry"
  /\ carry' = [carry EXCEPT ![CarrySlot(loc[w].chunkID)] =
                  CarryValue(loc[w].offs, SizeToStore(loc[w]))]
  /\ carryWrites' = [carryWrites EXCEPT ![CarrySlot(loc[w].chunkID)] = @ + 1]
  /\ carryWriter' = [carryWriter EXCEPT ![CarrySlot(loc[w].chunkID)] = @ \cup {loc[w].chunkID}]
  /\ carrySeen' = [carrySeen EXCEPT ![CarrySlot(loc[w].chunkID)] = loc[w].offs]
  /\ loc' = [loc EXCEPT ![w].pc = "size"]
  /\ UNCHANGED << m, input, nthreads, mainpc, next, head_out, outsize, size_out,
                  data_out, carryReaders, payloadBase, stageLog, sizeWriter, dataWriter >>

\* Mutant of StoreSize: the size-table entry is written before the carry is
\* published.
StoreSize_BeforeCarry(w) ==
  /\ loc[w].pc = "carry"
  /\ size_out[loc[w].chunkID] = Unwritten
  /\ size_out' = [size_out EXCEPT ![loc[w].chunkID] =
                     (IF loc[w].branch = "compressed" THEN loc[w].csize ELSE loc[w].osize)
                        % UShortMod]
  /\ sizeWriter' = [sizeWriter EXCEPT ![loc[w].chunkID] = @ \cup {loc[w].chunkID}]
  /\ UNCHANGED << m, input, nthreads, mainpc, next, head_out, outsize, carry,
                  data_out, loc, carryWrites, carryWriter, carryReaders, carrySeen,
                  payloadBase, stageLog, dataWriter >>

\* size_out[chunkID] = csize   resp. osize   (converted to unsigned short)
StoreSize(w) ==
  /\ loc[w].pc = "size"
  /\ size_out' = [size_out EXCEPT ![loc[w].chunkID] = SizeToStore(loc[w]) % UShortMod]
  /\ sizeWriter' = [sizeWriter EXCEPT ![loc[w].chunkID] = @ \cup {loc[w].chunkID}]
  /\ loc' = [loc EXCEPT ![w].pc = "data"]
  /\ UNCHANGED << m, input, nthreads, mainpc, next, head_out, outsize, carry,
                  data_out, carryWrites, carryWriter, carryReaders, carrySeen,
                  payloadBase, stageLog, dataWriter >>

\* Mutant of MemCpy: the last byte is not copied.
MemCpy_ShortByOne(buf, o, src, n) ==
  [i \in DOMAIN buf |-> IF i >= o /\ i < o + n - 1 THEN src[i - o + 1] ELSE buf[i]]

\* memcpy(&data_out[offs], src, n)
MemCpy(buf, o, src, n) ==
  [i \in DOMAIN buf |-> IF i >= o /\ i < o + n THEN src[i - o + 1] ELSE buf[i]]

\* the locations memcpy(&data_out[o], src, n) writes
MemRange(o, n) == { i \in o..(o + n - 1) : TRUE }

\* memcpy(&data_out[offs], out, csize)   resp. (&input[base], osize);
\* the iteration ends and the thread is idle again.
StoreData(w) ==
  /\ loc[w].pc = "data"
  /\ data_out' = MemCpy(data_out, loc[w].offs, BytesToStore(loc[w]), SizeToStore(loc[w]))
  /\ payloadBase' = [payloadBase EXCEPT ![loc[w].chunkID] = loc[w].offs]
  /\ dataWriter' = [i \in DOMAIN dataWriter |->
                      IF i \in MemRange(loc[w].offs, SizeToStore(loc[w]))
                        THEN dataWriter[i] \cup {loc[w].chunkID}
                        ELSE dataWriter[i]]
  /\ loc' = [loc EXCEPT ![w] = IdleLocals]
  /\ UNCHANGED << m, input, nthreads, mainpc, next, head_out, outsize, carry,
                  size_out, carryWrites, carryWriter, carryReaders, carrySeen, stageLog,
                  sizeWriter >>

\* outsize = &data_out[carry[chunks - 1]] - output
OutSize(nchunks, last) == DataOutAddr(nchunks) + last

\* After the loop's barrier: head_out[0] = insize; outsize; delete [] carry
\* (the model keeps the last values of carry for inspection).
Finish ==
  /\ mainpc = "loop"
  /\ next = chunks
  /\ \A w \in Threads : loc[w].pc = "idle"
  /\ head_out' = insize
  /\ outsize' = OutSize(chunks, carry[chunks - 1])
  /\ mainpc' = "done"
  /\ UNCHANGED << m, input, nthreads, next, shared, loc, history >>

Next ==
  \/ \E w \in Threads : Fetch(w)
  \/ \E w \in Threads : Load(w)
  \/ \E w \in Threads : Encode(w)
  \/ \E w \in Threads : Wait(w)
  \/ \E w \in Threads : Decide(w)
  \/ \E w \in Threads : StoreCarry(w)
  \/ \E w \in Threads : StoreSize(w)
  \/ \E w \in Threads : StoreData(w)
  \/ Finish

Spec == Init /\ [][Next]_vars

\* --------------------------------------------------------------------- main
\* main reads the input file, checks the optional third argument, converts
\* every dataset of dataset_size floats to doubles and writes the output
\* file.  It is modelled on its own: its state is the record m.

\* long long dataset_size = 2207;  scaled down, as CS is, so that inputs of a
\* few datasets can be enumerated.
dataset_size == 2
\* Largest size (in bytes) of the input file.
MaxFsize == 25
\* Largest argc.
MaxArgc == 4

\* the 4 of "insize / 4 / dataset_size" and "dataset_size * 4": bytes per float
FloatBytes == 4
\* sizeof(double): bytes per element of out_data
DoubleBytes == 8
\* the 2 of fwrite(out_data, 1, insize * 2, fout)
WriteFactor == 2

\* argv[3] when argc < 4: the null pointer argv[argc].
NoArg == "(null)"
\* The third arguments drawn: the accepted literal and two others.
Flags == {"y", "n", "yes"}

encvars == << input, nthreads, mainpc, next, carry, head_out, size_out, data_out,
              outsize, loc, carryWrites, carryWriter, carryReaders, carrySeen,
              payloadBase, stageLog, sizeWriter, dataWriter >>

\* main at its first statement.  readable: fopen(argv[1], "rb") succeeds;
\* filesize: the size of that file; writable: fopen(argv[2], "wb") succeeds.
MainStart(ac, a3, rd, fs, wr) ==
  [ pc |-> "args", argc |-> ac, arg3 |-> a3, readable |-> rd, filesize |-> fs,
    writable |-> wr, fin |-> "none", fsize |-> 0, insize |-> 0, perf |-> FALSE,
    num_datasets |-> 0, outsize |-> 0, ds |-> 0, idx |-> 0, fout |-> "none",
    written |-> -1, usedNull |-> FALSE, badRead |-> FALSE, badStore |-> FALSE,
    overread |-> FALSE ]

MainStarts ==
  { MainStart(ac, a3, rd, fs, wr) :
      ac \in 1..MaxArgc, a3 \in Flags \cup {NoArg}, rd \in BOOLEAN,
      fs \in 0..MaxFsize, wr \in BOOLEAN }

MainInit ==
  /\ m \in { s \in MainStarts : (s.argc >= 4) <=> (s.arg3 # NoArg) }
  /\ input = <<0>>
  /\ nthreads = 1
  /\ mainpc = "loop"
  /\ next = 0
  /\ carry = [c \in ChunkIDs |-> 0]
  /\ head_out = Unwritten
  /\ size_out = [c \in ChunkIDs |-> Unwritten]
  /\ data_out = [i \in 0..(MaxInsize + CS) |-> Unwritten]
  /\ outsize = Unwritten
  /\ loc = [w \in Threads |-> IdleLocals]
  /\ carryWrites = [c \in ChunkIDs |-> 0]
  /\ carryWriter = [c \in ChunkIDs |-> {}]
  /\ carryReaders = [c \in ChunkIDs |-> {}]
  /\ carrySeen = [c \in ChunkIDs |-> Unwritten]
  /\ payloadBase = [c \in ChunkIDs |-> Unwritten]
  /\ stageLog = [c \in ChunkIDs |-> NoStage]
  /\ sizeWriter = [c \in ChunkIDs |-> {}]
  /\ dataWriter = [i \in 0..(MaxInsize + CS) |-> {}]

\* if (argc < 3) {printf("USAGE: ..."); return -1;}
MainArgs ==
  /\ m.pc = "args"
  /\ m' = [m EXCEPT !.pc = IF m.argc < 3 THEN "usage" ELSE "fopen"]
  /\ UNCHANGED encvars

\* FILE* const fin = fopen(argv[1], "rb");   (the result is not tested)
MainOpen ==
  /\ m.pc = "fopen"
  /\ m' = [m EXCEPT !.fin = IF m.readable THEN "open" ELSE "null", !.pc = "fseek"]
  /\ UNCHANGED encvars

\* fseek(fin, 0, SEEK_END); const long long fsize = ftell(fin);
\* With fin == NULL the calls have undefined behaviour: the process crashes,
\* or the library rejects the stream and ftell returns -1.
MainSize ==
  /\ m.pc = "fseek"
  /\ IF m.fin = "null"
       THEN \/ m' = [m EXCEPT !.usedNull = TRUE, !.pc = "crash"]
            \/ m' = [m EXCEPT !.usedNull = TRUE, !.fsize = -1, !.pc = "check"]
       ELSE m' = [m EXCEPT !.fsize = m.filesize, !.pc = "check"]
  /\ UNCHANGED encvars

\* if (fsize <= 0)
TooSmall(n) == n <= 0

\* if (fsize <= 0) {fprintf(stderr, "ERROR: input file too small"); throw ...}
MainCheckSize ==
  /\ m.pc = "check"
  /\ m' = [m EXCEPT !.pc = IF TooSmall(m.fsize) THEN "fatal" ELSE "read"]
  /\ UNCHANGED encvars

\* input = new byte [fsize]; insize = fread(input, 1, fsize, fin); fclose(fin);
\* (assert(insize == fsize) is compiled out by NDEBUG; the file is read whole)
MainRead ==
  /\ m.pc = "read"
  /\ m' = [m EXCEPT !.insize = m.fsize, !.fin = "closed", !.pc = "flag"]
  /\ UNCHANGED encvars

\* Mutant of InvalidFlag: every argument is let through.
InvalidFlag_Never(a) == FALSE

\* strcmp(perf_str, "y"): equality of the strings
\* perf_str != nullptr && strcmp(perf_str, "y") == 0
AcceptedFlag(a) == a # NoArg /\ a = "y"
\* perf_str != nullptr && strcmp(perf_str, "y") != 0
InvalidFlag(a) == a # NoArg /\ a # "y"

\* char* perf_str = argv[3]; if (...) perf = true; else if (...) {fprintf; throw}
MainFlag ==
  /\ m.pc = "flag"
  /\ m' = IF AcceptedFlag(m.arg3) THEN [m EXCEPT !.perf = TRUE, !.pc = "alloc"]
          ELSE IF InvalidFlag(m.arg3) THEN [m EXCEPT !.pc = "fatal"]
          ELSE [m EXCEPT !.pc = "alloc"]
  /\ UNCHANGED encvars

\* long long num_datasets = insize / 4 / dataset_size;
NumDatasets(n) == (n \div FloatBytes) \div dataset_size

\* long long lc_data_size = dataset_size * 4;
lc_data_size == dataset_size * FloatBytes

\* num_datasets; outsize = num_datasets * dataset_size;
\* out_data = new double [outsize];
MainAlloc ==
  /\ m.pc = "alloc"
  /\ m' = [m EXCEPT !.num_datasets = NumDatasets(m.insize),
                    !.outsize = NumDatasets(m.insize) * dataset_size,
                    !.ds = 0, !.pc = "dataset"]
  /\ UNCHANGED encvars

\* for (ds < num_datasets): start_off, end_off; std::copy(input + start_off,
\* input + end_off, lc_data); h_QUANT_IABS_0_f32(lc_data_size, lc_data, ...);
\* after the last dataset the loop is left.
MainDataset ==
  /\ m.pc = "dataset"
  /\ m' = IF m.ds < m.num_datasets
            THEN [m EXCEPT !.badRead = @ \/ (m.ds * lc_data_size < 0)
                                         \/ ((m.ds + 1) * lc_data_size > m.insize),
                           !.idx = 0, !.pc = "inner"]
            ELSE [m EXCEPT !.pc = "write"]
  /\ UNCHANGED encvars

\* for (idx < lc_data_4_size): out_data[out_offset + idx] = out;
\* after the last word the next dataset follows.
MainStore ==
  /\ m.pc = "inner"
  /\ m' = IF m.idx < lc_data_size \div FloatBytes
            THEN [m EXCEPT !.badStore = @ \/ (m.ds * dataset_size + m.idx < 0)
                                          \/ (m.ds * dataset_size + m.idx >= m.outsize),
                           !.idx = @ + 1]
            ELSE [m EXCEPT !.ds = @ + 1, !.pc = "dataset"]
  /\ UNCHANGED encvars

\* fout = fopen(argv[2], "wb"); fwrite(out_data, 1, insize * 2, fout);
\* fclose(fout); return 0.  (The result of fopen is not tested: with fout ==
\* NULL the process crashes.  When insize * 2 exceeds the bytes of out_data,
\* fwrite reads behind the buffer: the process crashes or writes what lies
\* there.)
MainWrite ==
  /\ m.pc = "write"
  /\ IF ~m.writable
       THEN m' = [m EXCEPT !.fout = "null", !.pc = "crash"]
       ELSE LET n == m.insize * WriteFactor
                over == n > DoubleBytes * m.outsize
            IN \/ m' = [m EXCEPT !.fout = "closed", !.written = n,
                                 !.overread = over, !.pc = "exit"]
               \/ /\ over
                  /\ m' = [m EXCEPT !.fout = "open", !.written = n,
                                    !.overread = over, !.pc = "crash"]
  /\ UNCHANGED encvars

MainNext ==
  \/ MainArgs
  \/ MainOpen
  \/ MainSize
  \/ MainCheckSize
  \/ MainRead
  \/ MainFlag
  \/ MainAlloc
  \/ MainDataset
  \/ MainStore
  \/ MainWrite

MainSpec == MainInit /\ [][MainNext]_vars

\* ------------------------------------------------------------- the decoder
\* The reciprocal decoder, by its contract: per chunk, the original size
\* from the header, the stored size from the size table, the stored bytes at
\* the running sum of the stored sizes; copy when the sizes agree, else invert.
Done == mainpc = "done"

RECURSIVE SumSizes(_)
SumSizes(k) == IF k = 0 THEN 0 ELSE SumSizes(k - 1) + size_out[k - 1]

StoredBytes(c) == [i \in 1..size_out[c] |-> data_out[SumSizes(c) + i - 1]]

DecodeChunk(c) ==
  IF size_out[c] = OSize(c, head_out) THEN StoredBytes(c)
  ELSE StageInverse(StoredBytes(c), OSize(c, head_out))

RECURSIVE DecodeFrom(_)
DecodeFrom(c) ==
  IF c >= Chunks(head_out) THEN <<>> ELSE DecodeChunk(c) \o DecodeFrom(c + 1)

Decode == DecodeFrom(0)

\* The first insize bytes of the payload region.
Payload == [i \in 1..insize |-> data_out[i - 1]]

AllExact == \A c \in ChunkIDs : stageLog[c].exact
NoneImproved == \A c \in ChunkIDs : ~stageLog[c].improved
Varied == \E i \in 1..insize : input[i] # input[1]
StoredCompressed(c) == size_out[c] # Unwritten /\ size_out[c] < OSize(c, insize)
StoredRaw(c) == size_out[c] = OSize(c, insize)

\* ------------------------------------------------------------------ claims

\* C1 (round trip): when h_encode has returned and every successful stage
\* result is undone by the stage's inverse, decoding the stream (header,
\* size table, payload) gives back the input byte for byte.
C1_RoundTrip == (Done /\ AllExact) => Decode = input

C1_Witness ==
  /\ Done /\ AllExact /\ Varied /\ chunks >= 3
  /\ \E c \in ChunkIDs : StoredCompressed(c)
  /\ \E c \in ChunkIDs : StoredRaw(c)
  /\ Decode = input

\* C2 (non-expansion): whatever the stage reports, the size written to a
\* chunk's size-table entry is at most min(CS, insize - chunkID * CS).
C2_NonExpansion ==
  \A c \in ChunkIDs : size_out[c] # Unwritten => size_out[c] <= OSize(c, insize)

C2_Witness ==
  \E w \in Threads :
    /\ loc[w].pc = "data"
    /\ loc[w].good /\ loc[w].csize > loc[w].osize
    /\ size_out[loc[w].chunkID] = OSize(loc[w].chunkID, insize)

\* C3 (contiguity): chunk 0 is placed at offset 0, chunk c+1 at the offset of
\* chunk c plus the stored size of chunk c, carry[c] is the sum of the stored
\* sizes of chunks 0..c, and the offsets are strictly increasing.
C3_Contiguity ==
  \A c \in ChunkIDs :
    /\ (c = 0 /\ payloadBase[c] # Unwritten) => payloadBase[c] = 0
    /\ (carryWrites[c] > 0 /\ \A j \in 0..c : size_out[j] # Unwritten)
          => carry[c] = SumSizes(c + 1)
    /\ (/\ c + 1 \in ChunkIDs
        /\ payloadBase[c] # Unwritten /\ payloadBase[c + 1] # Unwritten
        /\ size_out[c] # Unwritten)
          => /\ payloadBase[c + 1] = payloadBase[c] + size_out[c]
             /\ payloadBase[c + 1] > payloadBase[c]

\* C4 (outsize): when h_encode has returned, outsize is 8 + 2 * chunks + the
\* sum of the stored sizes, and it is the payload address plus the published
\* carry of the last chunk.
C4_OutSize ==
  Done => /\ outsize = HeadBytes + ShortBytes * chunks + SumSizes(chunks)
          /\ carryWrites[chunks - 1] > 0
          /\ outsize = DataOutAddr(chunks) + carry[chunks - 1]

C4_Witness ==
  /\ Done /\ chunks >= 3
  /\ \E c \in ChunkIDs : StoredCompressed(c)
  /\ outsize = HeadBytes + ShortBytes * chunks + SumSizes(chunks)

\* C5 (payload ordering, as claimed): the payload of chunk c > 0 is not
\* written before the payload of chunk c-1 has been written.
C5_PayloadAfterPredecessorPayload ==
  \A c \in ChunkIDs :
    (c > 0 /\ payloadBase[c] # Unwritten) => payloadBase[c - 1] # Unwritten

\* C5 (payload ordering, amended): the payload of chunk c > 0 is not written
\* before chunk c-1 has published its non-zero carry, which is the offset
\* the payload of chunk c is written at; the payload of chunk c-1 itself may
\* follow later.
C5_PayloadAfterPredecessorCarry ==
  \A c \in ChunkIDs :
    (c > 0 /\ payloadBase[c] # Unwritten)
       => /\ carryWrites[c - 1] > 0
          /\ carry[c - 1] # 0
          /\ payloadBase[c] = carry[c - 1]

C5_Witness ==
  \E c \in ChunkIDs :
    /\ c > 0
    /\ payloadBase[c] # Unwritten
    /\ payloadBase[c - 1] = Unwritten
    /\ carryWrites[c - 1] > 0

\* C6 (termination): the encode call never reaches a state in which it has
\* not returned and no thread can take a step (every remaining thread spins
\* on a carry slot that stays unpublished).
C6_NoCarryDeadlock == Done \/ ENABLED Next

\* C7 (raw fallback): if the stage reported no improvement for every chunk,
\* then after h_encode every stored size is the original chunk size and the
\* payload is the input.
C7_RawFallback ==
  (Done /\ NoneImproved)
     => /\ \A c \in ChunkIDs : size_out[c] = OSize(c, insize)
        /\ Payload = input

C7_Witness ==
  /\ Done /\ NoneImproved /\ Varied /\ chunks >= 3
  /\ Payload = input

\* C8 (chunk planning): chunks is the ceiling of insize / CS, every chunk but
\* the last has CS bytes, the last has insize - (chunks-1) * CS bytes, between
\* 1 and CS, every input byte lies in exactly one chunk, and the loop runs
\* exactly these chunks with these sizes.
C8_ChunkPlanning ==
  /\ chunks * CS >= insize /\ (chunks - 1) * CS < insize
  /\ \A c \in ChunkIDs : c < chunks - 1 => OSize(c, insize) = CS
  /\ OSize(chunks - 1, insize) = insize - (chunks - 1) * CS
  /\ OSize(chunks - 1, insize) \in 1..CS
  /\ \A i \in 0..(insize - 1) :
       Cardinality({ c \in ChunkIDs : Base(c) <= i /\ i < Base(c) + OSize(c, insize) }) = 1
  /\ \A c \in ChunkIDs : Base(c) >= 0 /\ Base(c) + OSize(c, insize) <= insize
  /\ \A w \in Threads :
       /\ loc[w].pc # "idle" => loc[w].chunkID \in ChunkIDs
       /\ loc[w].pc \notin {"idle", "load"} =>
            loc[w].osize = Min(CS, insize - loc[w].chunkID * CS)
  /\ Done => \A c \in ChunkIDs : payloadBase[c] # Unwritten

C8_Witness ==
  /\ chunks >= 3
  /\ insize % CS # 0
  /\ \E w \in Threads :
       /\ loc[w].pc = "encode"
       /\ loc[w].chunkID = chunks - 1
       /\ loc[w].osize = insize - (chunks - 1) * CS
       /\ loc[w].osize < CS

\* C9 (carry slot discipline): every slot is stored to at most once (exactly
\* once when the loop has ended), by the iteration of its own chunk, for
\* c > 0 only after that iteration has loaded a non-zero value from slot
\* c-1; a stored slot keeps its value; and a slot is loaded by no iteration
\* but that of chunk c+1.
CarrySlotsInOrder ==
  \A c \in ChunkIDs :
    /\ carryWrites[c] <= 1
    /\ carryWriter[c] \subseteq {c}
    /\ carryReaders[c] \subseteq {c + 1}
    /\ Done => carryWrites[c] = 1
    /\ (c > 0 /\ carryWrites[c] > 0)
          => /\ carryWrites[c - 1] > 0
             /\ c \in carryReaders[c - 1]
             /\ carrySeen[c] # 0
             /\ carrySeen[c] = carry[c - 1]

CarrySlotsStable ==
  \A c \in ChunkIDs : carryWrites[c] > 0 => carry'[c] = carry[c]

C9_CarryDiscipline == [](CarrySlotsInOrder) /\ [][CarrySlotsStable]_vars

C9_Witness ==
  /\ chunks >= 3
  /\ \A c \in ChunkIDs : carryWrites[c] = 1
  /\ \A c \in ChunkIDs : c > 0 => carryReaders[c - 1] = {c}
  /\ ~Done

\* C10 (sentinel safety): every stored size is strictly positive, so every
\* published carry value is greater than 0, the "not yet published" value.
C10_SentinelSafe ==
  \A c \in ChunkIDs :
    /\ size_out[c] # Unwritten => size_out[c] > 0
    /\ carryWrites[c] > 0 => carry[c] > 0

\* C11 (disjoint writes): a size-table entry is written by the iteration of
\* its own chunk only, no payload byte is written by two iterations, the
\* ranges [base, base + storedSize) of different chunks do not meet, and the
\* payload bytes lie behind the header and the size table.
PayloadAddr(i) == DataOutAddr(chunks) + i
SizeEntryAddr(c) == HeadBytes + ShortBytes * c
PayloadRange(c) ==
  IF payloadBase[c] = Unwritten THEN {}
  ELSE { i \in payloadBase[c]..(payloadBase[c] + size_out[c] - 1) : TRUE }

C11_DisjointWrites ==
  /\ \A c \in ChunkIDs :
       /\ sizeWriter[c] \subseteq {c}
       /\ SizeEntryAddr(c) >= HeadBytes
       /\ SizeEntryAddr(c) + ShortBytes <= DataOutAddr(chunks)
  /\ \A i \in DOMAIN dataWriter :
       /\ Cardinality(dataWriter[i]) <= 1
       /\ \A c \in ChunkIDs : c \in dataWriter[i] <=> i \in PayloadRange(c)
       /\ dataWriter[i] # {} => PayloadAddr(i) >= HeadBytes + ShortBytes * chunks
  /\ \A c, d \in ChunkIDs : c # d => PayloadRange(c) \cap PayloadRange(d) = {}

C11_Witness ==
  /\ Done /\ chunks >= 3
  /\ \A c \in ChunkIDs : size_out[c] > 0
  /\ \E c \in ChunkIDs : StoredCompressed(c)
  /\ \A i \in 0..(SumSizes(chunks) - 1) : Cardinality(dataWriter[i]) = 1

\* C12 (input errors are fatal, no partial output): when main is run with an
\* empty input file, or with a third argument that is not "y", it never gets
\* past its checks, never opens or writes the output file, and when it has
\* stopped it has stopped abnormally (the uncaught exception, or the crash on
\* an input file that could not be opened).
InputError ==
  /\ m.argc >= 3
  /\ \/ m.readable /\ m.filesize = 0
     \/ m.argc >= 4 /\ m.arg3 # "y"
MainStopped == m.pc \in {"usage", "fatal", "crash", "exit"}

C12_InputErrorsFatal ==
  InputError =>
    /\ m.fout = "none" /\ m.written = -1
    /\ m.pc \notin {"alloc", "dataset", "inner", "write", "exit"}
    /\ MainStopped => m.pc \in {"fatal", "crash"}
    /\ (MainStopped /\ m.readable) => m.pc = "fatal"

C12_Witness ==
  /\ m.pc = "fatal" /\ m.arg3 = "n" /\ m.readable /\ m.filesize > 0
  /\ m.insize = m.filesize
  /\ m.fout = "none" /\ m.written = -1

\* C13 (unreadable input): when the input file cannot be opened, main stops
\* with a reported error, without using the null file handle and without
\* writing output.
C13_UnreadableReported ==
  (m.argc >= 3 /\ ~m.readable) =>
    /\ ~m.usedNull
    /\ m.pc # "crash"
    /\ m.fout = "none" /\ m.written = -1

\* C19 (buffer bounds in main): for every accepted insize >= 1 the insize * 2
\* bytes handed to fwrite do not exceed the bytes of out_data
\* (8 * num_datasets * dataset_size), every out_data[out_offset + idx] stored
\* in the dataset loop lies inside out_data, and every input byte copied in
\* [start_off, end_off) lies inside the input.
C19_BuffersInBounds ==
  (m.pc # "off" /\ m.insize >= 1) =>
    /\ ~m.badRead
    /\ ~m.badStore
    /\ m.written # -1 => m.written <= DoubleBytes * m.outsize

\* The index part of C19 alone, which the code keeps.
MainIndicesInBounds == ~m.badRead /\ ~m.badStore

\* C14 (fallback-raw policy): the step that writes a chunk's size-table entry
\* writes the reported csize exactly when the stage reported success and
\* csize < osize, and osize otherwise; the step that copies its payload
\* copies the stage's output bytes in the first case and the chunk's bytes of
\* the input in every other case (failure, equal size, larger size).
Improved(l) == l.good /\ l.csize < l.osize

SizeStepFollowsPolicy(w) ==
  (loc[w].pc = "size" /\ loc'[w].pc = "data") =>
     size_out'[loc[w].chunkID] = IF Improved(loc[w]) THEN loc[w].csize ELSE loc[w].osize

DataStepFollowsPolicy(w) ==
  (loc[w].pc = "data" /\ loc'[w].pc = "idle") =>
     LET c == loc[w].chunkID
         n == size_out[c]
     IN [i \in 1..n |-> data_out'[loc[w].offs + i - 1]] =
          IF Improved(loc[w]) THEN SubSeq(loc[w].out, 1, loc[w].csize)
          ELSE SubSeq(input, c * CS + 1, c * CS + loc[w].osize)

C14_FallbackPolicy ==
  [][\A w \in Threads : SizeStepFollowsPolicy(w) /\ DataStepFollowsPolicy(w)]_vars

C14_Witness ==
  /\ \E w \in Threads :
       /\ loc[w].pc = "data"
       /\ loc[w].good /\ loc[w].csize = loc[w].osize
       /\ size_out[loc[w].chunkID] = loc[w].osize
  /\ \E c \in ChunkIDs : payloadBase[c] # Unwritten /\ StoredCompressed(c)
  /\ \E c \in ChunkIDs :
       payloadBase[c] # Unwritten /\ StoredRaw(c) /\ ~stageLog[c].improved

\* What an iteration has done so far, read from what it leaves behind.
Running(w) == loc[w].pc # "idle"
Copied(w) == loc[w].osize > 0
Compressed(w) == stageLog[loc[w].chunkID].ran
Waited(w) == loc[w].chunkID > 0 /\ loc[w].chunkID \in carryReaders[loc[w].chunkID - 1]
Decided(w) == loc[w].branch # "none"
Published(w) == carryWrites[loc[w].chunkID] > 0
SizeWritten(w) == size_out[loc[w].chunkID] # Unwritten

PayloadBytesWritten(c) == Cardinality({ i \in DOMAIN dataWriter : c \in dataWriter[i] })

C16_SizeTableWidth ==
  \A c \in ChunkIDs : size_out[c] # Unwritten =>
    /\ 0 < size_out[c]
    /\ size_out[c] <= CS
    /\ CS <= UShortMod - 1
    /\ payloadBase[c] # Unwritten => PayloadBytesWritten(c) = size_out[c]

\* The part of C16 that does not rest on the stored size being positive.
SizeTableUntruncated ==
  \A c \in ChunkIDs : size_out[c] # Unwritten =>
    /\ 0 <= size_out[c]
    /\ size_out[c] <= CS
    /\ CS <= UShortMod - 1
    /\ payloadBase[c] # Unwritten => PayloadBytesWritten(c) = size_out[c]

\* The sequential encoder: chunks 0..chunks-1 in order, each stored by the
\* fallback policy from what the stage reported for it, at the running sum
\* of the stored sizes.
SeqSize(c) == IF stageLog[c].improved THEN stageLog[c].csize ELSE OSize(c, insize)
SeqBytes(c) ==
  IF stageLog[c].improved THEN StageOut(InputChunk(c), stageLog[c].csize)
  ELSE InputChunk(c)

RECURSIVE SeqPayload(_)
SeqPayload(k) == IF k = 0 THEN <<>> ELSE SeqPayload(k - 1) \o SeqBytes(k - 1)

\* C17 (schedule independence): for every team size and every interleaving,
\* when h_encode has returned its header, size table, payload and outsize
\* are those of the sequential encoder for the same input and the same
\* stage results.
C17_ScheduleIndependent ==
  Done =>
    /\ head_out = insize
    /\ \A c \in ChunkIDs : size_out[c] = SeqSize(c)
    /\ \A i \in DOMAIN data_out :
         data_out[i] = IF i < Len(SeqPayload(chunks)) THEN SeqPayload(chunks)[i + 1]
                       ELSE Unwritten
    /\ outsize = HeadBytes + ShortBytes * chunks + Len(SeqPayload(chunks))

C17_Witness ==
  /\ Done /\ nthreads >= 2 /\ chunks >= 3 /\ Varied
  /\ \E c \in ChunkIDs : stageLog[c].improved /\ stageLog[c].csize > 0
  /\ \E c \in ChunkIDs : ~stageLog[c].improved
  /\ \A c \in ChunkIDs : size_out[c] = SeqSize(c)

\* C18 (publication order): the non-zero carry slots are the slots 0..k-1 for
\* some k, and a chunk whose predecessor's slot is still 0 has neither stored
\* its carry nor written its size-table entry or payload.
C18_PublicationOrder ==
  /\ \E k \in 0..chunks : { c \in ChunkIDs : carry[c] # 0 } = 0..(k - 1)
  /\ \A c \in ChunkIDs :
       (c > 0 /\ carry[c - 1] = 0) =>
          /\ carry[c] = 0 /\ carryWrites[c] = 0
          /\ size_out[c] = Unwritten
          /\ payloadBase[c] = Unwritten

C18_Witness ==
  /\ chunks >= 3
  /\ carry[0] # 0 /\ carry[1] = 0
  /\ \E w \in Threads : loc[w].chunkID = 2 /\ loc[w].pc = "wait"
  /\ \E w \in Threads : loc[w].chunkID = 1 /\ loc[w].pc \in {"load", "encode", "wait", "decide"}

====
